---- MODULE Spec2Model ----
(***************************************************************************)
(* Model of the Fusion 360 add-in "Post Process All" (PostProcessAll.py):  *)
(* the SettingsManager (compiled-in default, global default file, per      *)
(* document attribute), the command dialog handlers, and the batch run     *)
(* PerformPostProcess with its per-folder sequence counters.               *)
(*                                                                         *)
(* Python strings are modelled as sequences of one-character strings, so   *)
(* that split('-'), strip() and concatenation are computed character by    *)
(* character.  Python dicts are functions from a set of keys; dict         *)
(* equality ignores insertion order, and so does the model.  A JSON text   *)
(* is a tagged value: an object text carries its members as a sequence of  *)
(* <<key, value>> pairs, the other tags stand for texts that do not parse  *)
(* ("bad") or that parse to something that is not an object.               *)
(***************************************************************************)
EXTENDS Integers, Sequences, FiniteSets, TLC

\* ------------------------------------------------------------------------
\* Bounds of the model
\* ------------------------------------------------------------------------

\* number of inputChanged events handled per process lifetime
MaxEdits == 2
\* length of the host's list of setups (run specification)
MaxSetups == 3
\* length of a setup name (naming specification)
MaxNameLen == 4
\* largest sequence number rendered (naming specification)
MaxSeq == 11

\* ------------------------------------------------------------------------
\* Program constants
\* ------------------------------------------------------------------------

\* version = 1
version == 1
\* adsk.cam.PostOutputUnitOptions.DocumentUnitsOutput
DocumentUnitsOutput == 0

\* ------------------------------------------------------------------------
\* Strings
\* ------------------------------------------------------------------------

Digits == <<"0", "1", "2", "3", "4", "5", "6", "7", "8", "9">>

\* the characters c for which c.isspace() holds, which str.strip() removes:
\* TAB, LF, VT (0x0b), FF, CR, FS, GS, RS, US (0x1c-0x1f), space, NEL (0x85),
\* NBSP (0xa0) and U+1680. The other Unicode spaces (U+2000-U+200A, U+2028,
\* U+2029, U+202F, U+205F, U+3000) cannot be written in a string of this
\* language and are not characters of the model.
Whitespace ==
    {"\t", "\n", "", "\f", "\r", "", "", "", "", " ", "", " ", " "}

\* c.isspace() for a one-character string c
IsSpace(c) == c \in Whitespace

\* str(n) for n >= 0: decimal rendering, most significant digit first
RECURSIVE str(_)
str(n) == IF n < 10 THEN <<Digits[n + 1]>>
          ELSE str(n \div 10) \o <<Digits[(n % 10) + 1]>>

RECURSIVE lstrip(_)
lstrip(s) == IF s # <<>> /\ IsSpace(Head(s)) THEN lstrip(Tail(s)) ELSE s

RECURSIVE rstrip(_)
rstrip(s) == IF s # <<>> /\ IsSpace(s[Len(s)])
             THEN rstrip(SubSeq(s, 1, Len(s) - 1)) ELSE s

\* a strip that trims the left end only
stripLeft(s) == lstrip(s)

\* s.strip()
strip(s) == rstrip(lstrip(s))

\* s.split('-'): scan left to right, cut at every '-'; acc is the list built
\* so far, cur the segment being read
RECURSIVE SplitFrom(_, _, _)
SplitFrom(s, acc, cur) ==
    IF s = <<>> THEN Append(acc, cur)
    ELSE IF Head(s) = "-" THEN SplitFrom(Tail(s), Append(acc, cur), <<>>)
    ELSE SplitFrom(Tail(s), acc, Append(cur, Head(s)))

split(s) == SplitFrom(s, <<>>, <<>>)

\* a suffix test that accepts every string
endswithAny(s, suffix) == TRUE

\* s.endswith(suffix)
endswith(s, suffix) ==
    /\ Len(suffix) <= Len(s)
    /\ SubSeq(s, Len(s) - Len(suffix) + 1, Len(s)) = suffix

\* ------------------------------------------------------------------------
\* Python values and JSON
\* ------------------------------------------------------------------------

EmptyDict == [k \in {} |-> 0]

\* Python values a settings variable can hold: None, a dict, or a JSON value
\* that is no dict ("other"; truthy tells how `not x` evaluates)
None == [t |-> "none", d |-> EmptyDict, truthy |-> FALSE]
Dict(d) == [t |-> "dict", d |-> d, truthy |-> DOMAIN d # {}]
Other(truthy) == [t |-> "other", d |-> EmptyDict, truthy |-> truthy]

\* order in which json.dumps writes the members (dicts keep no order here)
KeyOrder == <<"version", "post", "units", "output", "sequence", "twoDigits",
              "delFiles", "extra">>

\* JSON texts
BadText == [t |-> "bad", pairs |-> <<>>]
NullText == [t |-> "null", pairs |-> <<>>]
ListText == [t |-> "list", pairs |-> <<>>]
ObjText(pairs) == [t |-> "obj", pairs |-> pairs]

\* json.dumps(d) of a dict: one member per key
RECURSIVE DumpKeys(_, _)
DumpKeys(d, i) ==
    IF i > Len(KeyOrder) THEN <<>>
    ELSE (IF KeyOrder[i] \in DOMAIN d THEN << <<KeyOrder[i], d[KeyOrder[i]]>> >>
          ELSE <<>>) \o DumpKeys(d, i + 1)

\* a serializer that writes the compiled-in fields only
dumpsKnown(d) ==
    ObjText(DumpKeys([k \in DOMAIN d \ {"extra"} |-> d[k]], 1))

dumps(d) == ObjText(DumpKeys(d, 1))

\* the dict of an object text: members are added left to right, a repeated
\* key keeps its last value
RECURSIVE PairsToDict(_, _)
PairsToDict(pairs, d) ==
    IF pairs = <<>> THEN d
    ELSE LET k == Head(pairs)[1]
             v == Head(pairs)[2]
         IN PairsToDict(Tail(pairs), (k :> v) @@ d)

\* json.loads(text): ok = FALSE when it raises
loads(text) ==
    CASE text.t = "obj" -> [ok |-> TRUE, v |-> Dict(PairsToDict(text.pairs, EmptyDict))]
      [] text.t = "null" -> [ok |-> TRUE, v |-> Other(FALSE)]
      [] text.t = "list" -> [ok |-> TRUE, v |-> Other(TRUE)]
      [] OTHER -> [ok |-> FALSE, v |-> None]

\* x["version"] == version; raises (KeyError, TypeError) when x is no dict
\* or has no such key
HasVersion(x) == x.t = "dict" /\ "version" \in DOMAIN x.d

\* ------------------------------------------------------------------------
\* SettingsManager
\* ------------------------------------------------------------------------

\* values of the string settings used by the model
Empty == <<>>
Out == <<"o">>
Cps == <<"p", ".", "c", "p", "s">>

\* defaultSettings
defaultSettings ==
    [version |-> version, post |-> Empty, units |-> DocumentUnitsOutput,
     output |-> Empty, sequence |-> TRUE, twoDigits |-> FALSE, delFiles |-> TRUE]

\* a document attribute: absent, or a JSON text as its value
NoAttr == [has |-> FALSE, value |-> BadText]
Attr(text) == [has |-> TRUE, value |-> text]

\* the global default file: missing (open() raises), or a JSON text
NoFile == [exists |-> FALSE, text |-> BadText]
File(text) == [exists |-> TRUE, text |-> text]

\* a merge that rebuilds dst from the keys of src
UpdateSettingsKnownOnly(src, dst) ==
    [k \in DOMAIN src |->
        IF k = "version" THEN src["version"]
        ELSE IF k \in DOMAIN dst THEN dst[k] ELSE src[k]]

\* a merge that fills the missing keys and leaves dst's version alone
UpdateSettingsNoStamp(src, dst) ==
    [k \in DOMAIN dst \cup DOMAIN src |->
        IF k \in DOMAIN dst THEN dst[k] ELSE src[k]]

\* UpdateSettings(src, dst): the dict dst holds afterwards
UpdateSettings(src, dst) ==
    [k \in DOMAIN dst \cup DOMAIN src |->
        IF k = "version" THEN src["version"]
        ELSE IF k \in DOMAIN dst THEN dst[k] ELSE src[k]]

\* a reader that never returns the document's record as it is
ReadDocSettingsNeverDone(attr) ==
    IF ~attr.has THEN [done |-> FALSE, docSettings |-> None]
    ELSE LET r == loads(attr.value)
         IN IF ~r.ok THEN [done |-> FALSE, docSettings |-> None]
            ELSE [done |-> FALSE, docSettings |-> r.v]

\* GetSettings, lines 74-82: the document's own settings.  done = the
\* function returned them; otherwise docSettings is what the local variable
\* holds when control reaches line 84
ReadDocSettings(attr) ==
    IF ~attr.has THEN [done |-> FALSE, docSettings |-> None]
    ELSE LET r == loads(attr.value)
         IN IF ~r.ok THEN [done |-> FALSE, docSettings |-> None]
            ELSE IF HasVersion(r.v) /\ r.v.d["version"] = version
                 THEN [done |-> TRUE, docSettings |-> r.v]
                 ELSE [done |-> FALSE, docSettings |-> r.v]

\* GetSettings, lines 87-98: read the settings file; the result is the new
\* self.default and whether the except branch ran (fMustSave = True)
LoadDefault(f) ==
    LET fallback == [default |-> Dict(defaultSettings), mustSave |-> TRUE]
    IN IF ~f.exists THEN fallback
       ELSE LET r == loads(f.text)
            IN IF ~r.ok \/ ~HasVersion(r.v) THEN fallback
               ELSE IF r.v.d["version"] # version
                    THEN [default |-> Dict(UpdateSettings(defaultSettings, r.v.d)),
                          mustSave |-> FALSE]
                    ELSE [default |-> r.v, mustSave |-> FALSE]

\* a copy that is the cached object itself
CopyDefaultAlias(dflt) == [v |-> Dict(dflt.d), shared |-> TRUE]

\* dict(self.default), line 101: a new dict, not the cached object
CopyDefault(dflt) == [v |-> Dict(dflt.d), shared |-> FALSE]

\* a test that loads the file on every call
NeedsLoadAlways(dflt) == TRUE

\* if not self.default, line 85
NeedsLoad(dflt) == ~dflt.truthy

\* GetSettings(docAttr) on a manager whose fields are dflt, mustSave and whose
\* settings file is f: the record returned (ret; shared tells whether it is
\* the cached object itself), whether an exception escaped (raised), the
\* manager's fields afterwards, and whether the file was opened (read)
GetSettings(attr, dflt, mustSave, f) ==
    LET doc == ReadDocSettings(attr)
        loaded == LoadDefault(f)
        load == IF ~NeedsLoad(dflt) THEN [default |-> dflt, mustSave |-> mustSave]
                ELSE [default |-> loaded.default,
                      mustSave |-> mustSave \/ loaded.mustSave]
        base == [raised |-> FALSE, ret |-> None, shared |-> FALSE,
                 default |-> load.default, mustSave |-> load.mustSave,
                 read |-> NeedsLoad(dflt)]
    IN IF doc.done
       THEN [raised |-> FALSE, ret |-> doc.docSettings, shared |-> FALSE,
             default |-> dflt, mustSave |-> mustSave, read |-> FALSE]
       ELSE IF ~doc.docSettings.truthy
       THEN [base EXCEPT !.ret = CopyDefault(load.default).v,
                         !.shared = CopyDefault(load.default).shared]
       ELSE IF doc.docSettings.t = "dict"
       THEN [base EXCEPT !.ret = Dict(UpdateSettings(load.default.d, doc.docSettings.d))]
       ELSE \* UpdateSettings on a list, number or string: TypeError
            [base EXCEPT !.raised = TRUE]

\* open(path, "w") and file.write in SaveDefault: what the file holds
\* afterwards.  "ok": the text; "open": open() raised, the file is as it
\* was; "write": the file was truncated and the write raised
WriteOutcomes == {"ok", "open", "write"}

WriteFile(f, text, outcome) ==
    CASE outcome = "ok" -> File(text)
      [] outcome = "open" -> f
      [] OTHER -> File(BadText)

\* ------------------------------------------------------------------------
\* State
\* ------------------------------------------------------------------------

VARIABLES
    file,           \* the settings file next to the add-in (global default)
    default,        \* SettingsManager.default
    fMustSave,      \* SettingsManager.fMustSave
    docAttr,        \* per document: the attribute (constAttrGroup, constAttrName)
    phase,          \* "idle", "dialog" (command dialog open), "loop", "report"
    activeDoc,      \* app.activeDocument of the command
    docSettings,    \* the dict shared by the command's handlers
    shared,         \* docSettings and self.default are one object
    validated,      \* validateInputs has run since the last change
    areInputsValid, \* eventArgs.areInputsValid of the last validation
    errorText,      \* the error text box: <<visible, err1, combine, err2>>
    setups,         \* cam.setups of the host, in browser order
    idx,            \* number of setups the for loop has taken from the list
    seqDict,        \* seqDict of PerformPostProcess
    cntFiles,       \* cntFiles
    cntSetups,      \* cntSetups
    wasCancelled,   \* progress.wasCancelled
    log,            \* calls made on the host during the current run, in order
    lastGet,        \* how the last commandCreated event ended: "none" yet,
                    \* "dialog", "raised" (GetSettings), "failed" (building)
    fileReads,      \* number of times the settings file was opened for reading
    edits,          \* number of inputChanged events so far
    ranBefore       \* the current run is not the first of the process

vars == <<file, default, fMustSave, docAttr, phase, activeDoc, docSettings,
          shared, validated, areInputsValid, errorText, setups, idx, seqDict,
          cntFiles, cntSetups, wasCancelled, log, lastGet, fileReads, edits,
          ranBefore>>

storeVars == <<file, default, fMustSave, docAttr>>
dialogVars == <<activeDoc, docSettings, shared, validated, areInputsValid, errorText>>
runVars == <<idx, seqDict, cntFiles, cntSetups, wasCancelled, log>>

Docs == {"d1", "d2"}

\* a file without the extension, and a path that names no file
NoExt == <<"p">>
MissingCps == <<"q", ".", "c", "p", "s">>

\* the files os.path.isfile() finds
ExistingFiles == {Cps, NoExt}

\* a setup of the host
Setup(name, isSuppressed, count) ==
    [name |-> name, isSuppressed |-> isSuppressed, count |-> count]

\* an entry of the log
Event(op, folder, fname, seq, i, msg) ==
    [op |-> op, folder |-> folder, fname |-> fname, seq |-> seq, i |-> i, msg |-> msg]

NoError == <<FALSE, "", "", "">>

\* ------------------------------------------------------------------------
\* Naming and sequencing (PerformPostProcess, lines 437-459)
\* ------------------------------------------------------------------------

\* an eligibility test that forgets the suppressed flag
IsEligibleUnsuppressed(setup) == setup.count # 0

\* not setup.isSuppressed and setup.allOperations.count != 0
IsEligible(setup) == ~setup.isSuppressed /\ setup.count # 0

\* cam.allOperations.count: the operations of all setups of the document
RECURSIVE AllOperationsCount(_)
AllOperationsCount(list) ==
    IF list = <<>> THEN 0 ELSE Head(list).count + AllOperationsCount(Tail(list))

\* the while loop of lines 442-444, entered with i (0-based) and setupFolder
RECURSIVE FolderLoop(_, _, _, _)
FolderLoop(setupFolder, nameList, i, cnt) ==
    IF i < cnt
    THEN FolderLoop(setupFolder \o <<"/">> \o strip(nameList[i + 1]), nameList, i + 1, cnt)
    ELSE setupFolder

\* setupFolder of a setup name, lines 438-444
SetupFolder(outputFolder, name) ==
    LET nameList == split(name)
    IN FolderLoop(outputFolder, nameList, 0, Len(nameList) - 1)

\* fname before numbering, line 453 (i = len(nameList) - 1 after the loop)
BaseName(name) ==
    LET nameList == split(name)
    IN strip(nameList[Len(nameList)])

\* a counter that starts at 1 for every setup
BumpSeqRestart(dict, setupFolder) ==
    [f \in DOMAIN dict \cup {setupFolder} |->
        IF f = setupFolder THEN 1 ELSE dict[f]]

\* seqDict after lines 447-450
BumpSeq(dict, setupFolder) ==
    IF setupFolder \in DOMAIN dict
    THEN [dict EXCEPT ![setupFolder] = @ + 1]
    ELSE [f \in DOMAIN dict \cup {setupFolder} |->
             IF f = setupFolder THEN 1 ELSE dict[f]]

\* a padding test that is off by one
FileNamePadTen(fname, seq, sequence, twoDigits) ==
    IF sequence
    THEN LET seqStr == IF twoDigits /\ seq <= 10 THEN <<"0">> \o str(seq) ELSE str(seq)
         IN seqStr \o <<" ">> \o fname
    ELSE fname

\* fname after lines 454-459
FileName(fname, seq, sequence, twoDigits) ==
    IF sequence
    THEN LET seqStr == IF twoDigits /\ seq < 10 THEN <<"0">> \o str(seq) ELSE str(seq)
         IN seqStr \o <<" ">> \o fname
    ELSE fname

\* a run that keeps the counters of the run before
NewSeqDictKept(old) == old

\* seqDict = dict(), line 422
NewSeqDict(old) == EmptyDict

\* ------------------------------------------------------------------------
\* SettingsManager.SaveDefault and SaveSettings as state changes
\* ------------------------------------------------------------------------

\* dict(docSettings), line 108
CopySettings(d) == [v |-> Dict(d.d), shared |-> FALSE]

\* a SaveDefault that clears the flag only when the file was written
SaveDefaultFlagOnSuccess(settings, f, outcome) ==
    [mustSave |-> outcome # "ok",
     default |-> CopySettings(settings).v,
     shared |-> CopySettings(settings).shared,
     file |-> WriteFile(f, dumps(settings.d), outcome)]

\* SaveDefault(settings): the manager's fields and the file afterwards
SaveDefault(settings, f, outcome) ==
    [mustSave |-> FALSE,
     default |-> CopySettings(settings).v,
     shared |-> CopySettings(settings).shared,
     file |-> WriteFile(f, dumps(settings.d), outcome)]

\* a SaveSettings that writes the cached default to the document
SaveSettingsDefaultAttr(settings, dflt, mustSave, isShared, f, outcome) ==
    LET sd == SaveDefault(settings, f, outcome)
    IN [mustSave |-> IF mustSave THEN sd.mustSave ELSE mustSave,
        default |-> IF mustSave THEN sd.default ELSE dflt,
        shared |-> IF mustSave THEN sd.shared ELSE isShared,
        file |-> IF mustSave THEN sd.file ELSE f,
        attr |-> Attr(dumps(dflt.d))]

\* SaveSettings(docAttr, settings): the manager's fields, the file and the
\* document's attribute afterwards
SaveSettings(settings, dflt, mustSave, isShared, f, outcome) ==
    LET sd == SaveDefault(settings, f, outcome)
    IN [mustSave |-> IF mustSave THEN sd.mustSave ELSE mustSave,
        default |-> IF mustSave THEN sd.default ELSE dflt,
        shared |-> IF mustSave THEN sd.shared ELSE isShared,
        file |-> IF mustSave THEN sd.file ELSE f,
        attr |-> Attr(dumps(settings.d))]

\* ------------------------------------------------------------------------
\* Command dialog handlers
\* ------------------------------------------------------------------------

\* keys CommandEventHandler.notify reads while it builds the inputs
DialogKeys == {"output", "delFiles", "sequence", "twoDigits", "post"}

CpsExt == <<".", "c", "p", "s">>

msgFailed == "Failed"
msgNothing == "No CAM operations to post"

\* CommandEventHandler.notify on document d
CommandCreated(d) ==
    /\ phase = "idle"
    /\ LET r == GetSettings(docAttr[d], default, fMustSave, file)
           built == ~r.raised /\ DialogKeys \subseteq DOMAIN r.ret.d
       IN /\ default' = r.default
          /\ fMustSave' = r.mustSave
          /\ fileReads' = fileReads + (IF r.read THEN 1 ELSE 0)
          /\ lastGet' = IF r.raised THEN "raised"
                         ELSE IF built THEN "dialog" ELSE "failed"
          /\ IF built
             THEN /\ phase' = "dialog"
                  /\ activeDoc' = d
                  /\ docSettings' = r.ret
                  /\ shared' = r.shared
                  /\ validated' = FALSE
                  /\ areInputsValid' = FALSE
                  /\ errorText' = NoError
             ELSE \* the except branch: a message box, no handler connected
                  /\ phase' = "idle"
                  /\ activeDoc' = "d1"
                  /\ docSettings' = None
                  /\ shared' = FALSE
                  /\ validated' = FALSE
                  /\ areInputsValid' = FALSE
                  /\ errorText' = NoError
    /\ UNCHANGED <<file, docAttr, setups, runVars, edits, ranBefore>>

\* CommandValidateInputsHandler.notify, fired by the host after the dialog is
\* created and after every inputChanged event, before the next user event;
\* the inputs "output" and "post" hold the values of docSettings (set from
\* them at creation, copied back on every change)
ValidateInputs ==
    /\ phase = "dialog"
    /\ ~validated
    /\ LET fIsOutputValid == Len(docSettings.d["output"]) # 0
           post == docSettings.d["post"]
           fIsPostValid == endswith(post, CpsExt) /\ post \in ExistingFiles
           valid == fIsOutputValid /\ fIsPostValid
           err1 == IF ~fIsOutputValid THEN "the output folder" ELSE ""
           err2 == IF ~fIsPostValid THEN "a valid post processor" ELSE ""
           combine == IF ~fIsOutputValid /\ ~fIsPostValid THEN " and " ELSE ""
       IN /\ areInputsValid' = valid
          /\ errorText' = IF valid
                          THEN <<FALSE, errorText[2], errorText[3], errorText[4]>>
                          ELSE <<TRUE, err1, combine, err2>>
    /\ validated' = TRUE
    /\ UNCHANGED <<storeVars, phase, activeDoc, docSettings, shared, setups,
                   runVars, lastGet, fileReads, edits, ranBefore>>

\* values the user can give an input
InputValues(id) ==
    CASE id \in {"sequence", "twoDigits", "delFiles"} -> BOOLEAN
      [] id = "output" -> {Empty, Out}
      [] id = "post" -> {Empty, Cps, NoExt, MissingCps}
      [] OTHER -> {}

\* self.docSettings[key] = value; the cached default follows when it is the
\* same object
SetItem(key, value) ==
    LET d == [docSettings.d EXCEPT ![key] = value]
    IN /\ docSettings' = Dict(d)
       /\ default' = IF shared THEN Dict(d) ELSE default

\* input.id == "save" (line 300): SaveDefault(self.docSettings)
SaveClicked(outcome) ==
    LET sd == SaveDefault(docSettings, file, outcome)
    IN /\ UNCHANGED docSettings
       /\ fMustSave' = sd.mustSave
       /\ default' = sd.default
       /\ shared' = sd.shared
       /\ file' = sd.file

\* CommandInputChangedHandler.notify
InputChanged ==
    /\ phase = "dialog"
    /\ validated
    /\ edits < MaxEdits
    /\ edits' = edits + 1
    /\ \/ \* input.id == "save"
          \E outcome \in WriteOutcomes : SaveClicked(outcome)
       \/ \* input.id == "browsePost", the file dialog returns DialogOK
          \E filename \in InputValues("post") \ {docSettings.d["post"]} :
             /\ SetItem("post", filename)
             /\ UNCHANGED <<file, fMustSave, shared>>
       \/ \* input.id == "browseOutput", the folder dialog returns DialogOK
          \E folder \in InputValues("output") \ {docSettings.d["output"]} :
             /\ SetItem("output", folder)
             /\ UNCHANGED <<file, fMustSave, shared>>
       \/ \* input.id in self.docSettings; the twoDigits box is enabled
          \* only while the sequence box is checked (lines 231, 329)
          \E id \in DialogKeys \cap DOMAIN docSettings.d :
             \E value \in InputValues(id) \ {docSettings.d[id]} :
                /\ id = "twoDigits" => docSettings.d["sequence"]
                /\ SetItem(id, value)
                /\ UNCHANGED <<file, fMustSave, shared>>
    /\ validated' = FALSE
    /\ UNCHANGED <<docAttr, phase, activeDoc, areInputsValid, errorText, setups,
                   runVars, lastGet, fileReads, ranBefore>>

\* the user dismisses the dialog without running the command; the dialog and
\* its handlers' docSettings are gone
DialogCancelled ==
    /\ phase = "dialog"
    /\ validated
    /\ phase' = "idle"
    /\ docSettings' = None
    /\ shared' = FALSE
    /\ validated' = FALSE
    /\ areInputsValid' = FALSE
    /\ errorText' = NoError
    /\ activeDoc' = "d1"
    /\ UNCHANGED <<storeVars, setups, runVars, lastGet, fileReads,
                   edits, ranBefore>>

\* ------------------------------------------------------------------------
\* PerformPostProcess
\* ------------------------------------------------------------------------

NoStr == <<>>
SaveEvent == Event("SaveSettings", NoStr, NoStr, 0, 0, "")
RmtreeEvent(folder) == Event("rmtree", folder, NoStr, 0, 0, "")
PostEvent(folder, fname, seq, i) == Event("postProcess", folder, fname, seq, i, "")
MessageEvent(msg) == Event("messageBox", NoStr, NoStr, 0, 0, msg)

\* the except branch of PerformPostProcess (lines 479-481): what the user is
\* told; cnt is cntFiles at that moment
ExceptReportAndEmpty(cnt) ==
    <<MessageEvent(msgFailed)>> \o
    (IF cnt = 0 THEN <<MessageEvent(msgNothing)>> ELSE <<>>)

ExceptReport(cnt) == <<MessageEvent(msgFailed)>>

\* a test of the delFiles flag that is inverted
ShouldDeleteInverted(settings) == ~settings.d["delFiles"]

\* if docSettings["delFiles"], line 425
ShouldDelete(settings) == settings.d["delFiles"]

\* shutil.rmtree(path, ignore_errors) on a tree that exists or not: "ok" when
\* it returns, "raised" when it raises (a missing tree, errors not ignored)
rmtree(exists, ignore_errors) ==
    IF ~exists /\ ~ignore_errors THEN "raised" ELSE "ok"

\* CommandExecuteHandler.notify: PerformPostProcess up to the for loop
\* (lines 404-432), and to its end when the loop is not entered
Execute ==
    /\ phase = "dialog"
    /\ validated
    /\ areInputsValid
    /\ UNCHANGED <<activeDoc, docSettings, setups, lastGet, fileReads, edits>>
    /\ \E outcome \in WriteOutcomes :
          LET ss == SaveSettings(docSettings, default, fMustSave, shared, file, outcome)
          IN /\ outcome # "ok" => fMustSave
             /\ fMustSave' = ss.mustSave
             /\ default' = ss.default
             /\ shared' = ss.shared
             /\ file' = ss.file
             /\ docAttr' = [docAttr EXCEPT ![activeDoc] = ss.attr]
    /\ cntFiles' = 0
    /\ cntSetups' = 0
    /\ idx' = 0
    /\ wasCancelled' = FALSE
    /\ IF AllOperationsCount(setups) # 0
       THEN /\ seqDict' = NewSeqDict(seqDict)
            /\ IF ShouldDelete(docSettings)
               THEN \E exists \in BOOLEAN :
                       IF rmtree(exists, TRUE) = "ok"
                       THEN /\ log' = <<SaveEvent, RmtreeEvent(docSettings.d["output"])>>
                            /\ phase' = "loop"
                       ELSE /\ log' = <<SaveEvent, RmtreeEvent(docSettings.d["output"])>>
                                      \o ExceptReport(0)
                            /\ phase' = "idle"
               ELSE /\ log' = <<SaveEvent>>
                    /\ phase' = "loop"
       ELSE /\ seqDict' = EmptyDict
            /\ log' = <<SaveEvent, MessageEvent(msgNothing)>>
            /\ phase' = "idle"
    /\ ranBefore' = (ranBefore \/ log # <<>>)
    /\ \* the dialog is gone; docSettings lives on as the run's argument
       /\ validated' = FALSE
       /\ areInputsValid' = FALSE
       /\ errorText' = NoError

\* a test of the flag that never sees it
CancelIgnored(flag) == FALSE

\* if progress.wasCancelled: break (lines 435-436)
CancelObserved(flag) == flag

\* the user presses Cancel on the progress dialog
CancelRequested ==
    /\ phase = "loop"
    /\ ~wasCancelled
    /\ wasCancelled' = TRUE
    /\ UNCHANGED <<storeVars, phase, dialogVars, setups, idx, seqDict, cntFiles,
                   cntSetups, log, lastGet, fileReads, edits, ranBefore>>

\* one iteration of the for loop (lines 434-471) that does not break;
\* posted tells whether cam.postProcess returns or raises, pressed whether
\* the user presses Cancel while cam.postProcess is at work
LoopIteration ==
    /\ phase = "loop"
    /\ idx < Len(setups)
    /\ ~CancelObserved(wasCancelled)
    /\ LET setup == setups[idx + 1]
           setupFolder == SetupFolder(docSettings.d["output"], setup.name)
           dict == BumpSeq(seqDict, setupFolder)
           fname == FileName(BaseName(setup.name), dict[setupFolder],
                             docSettings.d["sequence"], docSettings.d["twoDigits"])
       IN IF IsEligible(setup)
          THEN /\ seqDict' = dict
               /\ IF "units" \notin DOMAIN docSettings.d
                  THEN \* docSettings["units"] raises KeyError
                       /\ log' = log \o ExceptReport(cntFiles)
                       /\ phase' = "idle"
                       /\ UNCHANGED <<idx, cntFiles, cntSetups, wasCancelled>>
                  ELSE \E posted \in BOOLEAN, pressed \in BOOLEAN :
                          IF posted
                          THEN /\ log' = Append(log, PostEvent(setupFolder, fname,
                                                               dict[setupFolder], idx + 1))
                               /\ cntFiles' = cntFiles + 1
                               /\ cntSetups' = cntSetups + 1
                               /\ idx' = idx + 1
                               /\ phase' = "loop"
                               /\ wasCancelled' = (wasCancelled \/ pressed)
                          ELSE /\ log' = log \o <<PostEvent(setupFolder, fname,
                                                            dict[setupFolder], idx + 1)>>
                                           \o ExceptReport(cntFiles)
                               /\ phase' = "idle"
                               /\ UNCHANGED <<idx, cntFiles, cntSetups, wasCancelled>>
          ELSE /\ cntSetups' = cntSetups + 1
               /\ idx' = idx + 1
               /\ UNCHANGED <<seqDict, cntFiles, log, phase, wasCancelled>>
    /\ UNCHANGED <<storeVars, dialogVars, setups, lastGet,
                   fileReads, edits, ranBefore>>

\* an end of the run that reports by the number of setups visited
FinishBySetups ==
    /\ phase = "loop"
    /\ CancelObserved(wasCancelled) \/ idx = Len(setups)
    /\ log' = IF cntSetups = 0 THEN Append(log, MessageEvent(msgNothing)) ELSE log
    /\ phase' = "idle"
    /\ UNCHANGED <<storeVars, dialogVars, setups, idx, seqDict, cntFiles,
                   cntSetups, wasCancelled, lastGet, fileReads, edits, ranBefore>>

\* the loop ends (list exhausted, or break on wasCancelled): lines 473-477
Finish ==
    /\ phase = "loop"
    /\ CancelObserved(wasCancelled) \/ idx = Len(setups)
    /\ log' = IF cntFiles = 0 THEN Append(log, MessageEvent(msgNothing)) ELSE log
    /\ phase' = "idle"
    /\ UNCHANGED <<storeVars, dialogVars, setups, idx, seqDict, cntFiles,
                   cntSetups, wasCancelled, lastGet, fileReads, edits, ranBefore>>

\* ------------------------------------------------------------------------
\* Initial states and specifications
\* ------------------------------------------------------------------------

\* a complete record of the current version
Settings(sequence, twoDigits, delFiles) ==
    [version |-> version, post |-> Cps, units |-> DocumentUnitsOutput,
     output |-> Out, sequence |-> sequence, twoDigits |-> twoDigits,
     delFiles |-> delFiles]

\* JSON object texts found in the file or in a document
OldPartialText == ObjText(<< <<"version", 0>>, <<"output", Out>>, <<"post", Cps>>,
                             <<"delFiles", FALSE>>, <<"extra", 7>> >>)
NoVersionText == ObjText(<< <<"post", Cps>>, <<"output", Out>> >>)
CurrentFullText == dumps(Settings(FALSE, TRUE, FALSE))
CurrentNoUnitsText == ObjText(<< <<"version", version>>, <<"post", Cps>>,
                                 <<"output", Out>>, <<"sequence", TRUE>>,
                                 <<"twoDigits", TRUE>>, <<"delFiles", FALSE>> >>)
CurrentPartialText == ObjText(<< <<"version", version>>, <<"post", Cps>> >>)
NewerText == ObjText(<< <<"version", 2>>, <<"post", Cps>>, <<"output", Out>>,
                        <<"sequence", FALSE>>, <<"extra", 7>> >>)

FileInits ==
    {NoFile, File(BadText), File(NoVersionText),
     File(OldPartialText), File(CurrentFullText), File(CurrentPartialText),
     File(NewerText)}

AttrInits ==
    {NoAttr, Attr(BadText), Attr(ListText), Attr(ObjText(<<>>)),
     Attr(NoVersionText), Attr(OldPartialText), Attr(CurrentFullText),
     Attr(CurrentNoUnitsText), Attr(CurrentPartialText), Attr(NewerText)}

\* the second document holds stale settings
SecondAttrInits == {Attr(OldPartialText)}

\* setups of the host
NameAX == <<"a", "-", "x">>
NameASpX == <<"a", " ", "-", " ", "x">>
NameBX == <<"b", "-", "x">>
NameX == <<"x">>

SetupDomain ==
    {Setup(NameAX, FALSE, 1), Setup(NameASpX, FALSE, 2), Setup(NameBX, FALSE, 1),
     Setup(NameX, FALSE, 1), Setup(NameAX, TRUE, 1), Setup(NameX, FALSE, 0)}

SeqsUpTo(S, n) == UNION {[1..k -> S] : k \in 0..n}

InitIdle ==
    /\ default = None
    /\ fMustSave = FALSE
    /\ phase = "idle"
    /\ activeDoc = "d1"
    /\ docSettings = None
    /\ shared = FALSE
    /\ validated = FALSE
    /\ areInputsValid = FALSE
    /\ errorText = NoError
    /\ idx = 0
    /\ seqDict = EmptyDict
    /\ cntFiles = 0
    /\ cntSetups = 0
    /\ wasCancelled = FALSE
    /\ log = <<>>
    /\ lastGet = "none"
    /\ fileReads = 0
    /\ edits = 0
    /\ ranBefore = FALSE

\* the add-in has just been started (run): any settings file, any document
\* attributes; the documents hold no CAM operation, so that the for loop of
\* PerformPostProcess is never entered
Init ==
    /\ InitIdle
    /\ file \in FileInits
    /\ docAttr \in [Docs -> AttrInits]
    /\ docAttr["d2"] \in SecondAttrInits
    /\ setups = <<>>

Next ==
    \/ \E d \in Docs : CommandCreated(d)
    \/ ValidateInputs
    \/ InputChanged
    \/ DialogCancelled
    \/ Execute

Spec == Init /\ [][Next]_vars

\* the add-in has just been started on documents that hold complete settings
\* of the current version; the user runs the command without editing
InitRun ==
    /\ InitIdle
    /\ file = NoFile
    /\ \E s \in BOOLEAN, t \in BOOLEAN, del \in BOOLEAN :
          docAttr = [d \in Docs |-> Attr(dumps(Settings(s, t, del)))]
    /\ setups \in SeqsUpTo(SetupDomain, MaxSetups)

NextRun ==
    \/ CommandCreated("d1")
    \/ ValidateInputs
    \/ Execute
    \/ CancelRequested
    \/ LoopIteration
    \/ Finish

SpecRun == InitRun /\ [][NextRun]_vars

\* the naming specification: the same run, started on lists that exercise the
\* naming rules: MaxSeq eligible setups of one name (sequence numbers up to
\* MaxSeq), and pairs of eligible setups, the first with an arbitrary name of
\* up to MaxNameLen characters over a letter, the hyphen, the space and a
\* whitespace character other than the space (form feed)
Alphabet == {"a", " ", "\f", "-"}
AllNames(n) == SeqsUpTo(Alphabet, n)

LongLists == {[i \in 1..MaxSeq |-> Setup(n, FALSE, 1)] : n \in {NameAX, NameX}}

\* second names: folder a (three times, differing in whitespace), the folder
\* with the empty name, and no folder
SecondNames ==
    {<<"a", "-">>, <<"a", " ", "-">>, <<"a", "\f", "-">>, <<"-">>, <<"a">>}

PairLists ==
    {<<Setup(n1, FALSE, 1), Setup(n2, FALSE, 1)>> :
        n1 \in AllNames(MaxNameLen), n2 \in SecondNames}

InitNaming ==
    /\ InitIdle
    /\ file = NoFile
    /\ \/ /\ setups \in LongLists
          /\ \E s \in BOOLEAN, t \in BOOLEAN, del \in BOOLEAN :
                docAttr = [d \in Docs |-> Attr(dumps(Settings(s, t, del)))]
       \/ /\ setups \in PairLists
          /\ \E s \in BOOLEAN :
                docAttr = [d \in Docs |-> Attr(dumps(Settings(s, FALSE, FALSE)))]

\* one run per process
NextNaming ==
    \/ CommandCreated("d1")
    \/ ValidateInputs
    \/ Execute /\ ~ranBefore'
    \/ CancelRequested
    \/ LoopIteration
    \/ Finish

SpecNaming == InitNaming /\ [][NextNaming]_vars

\* ------------------------------------------------------------------------
\* Properties
\* ------------------------------------------------------------------------

Range(f) == {f[i] : i \in DOMAIN f}

\* the postProcess calls of the current run
Posts == {k \in 1..Len(log) : log[k].op = "postProcess"}

\* the run's output folder
OutputFolder == docSettings.d["output"]

\* a setup the spec calls eligible: not suppressed, at least one operation
SpecEligible(setup) == ~(setup.isSuppressed \/ setup.count = 0)

\* C1: the sequence number of an eligible setup is 1 plus the number of
\* eligible setups before it in the list whose setupFolder equals its own,
\* in every run (counters start afresh), and every eligible setup the loop
\* has passed was given one.
C1_SequenceNumbers ==
    log # <<>> =>
        /\ \A k \in Posts :
              log[k].seq = 1 + Cardinality(
                  {j \in 1..(log[k].i - 1) :
                      /\ SpecEligible(setups[j])
                      /\ SetupFolder(OutputFolder, setups[j].name) = log[k].folder})
        /\ \A j \in 1..idx :
              SpecEligible(setups[j]) =>
                  \E k \in Posts :
                      /\ log[k].i = j
                      /\ log[k].folder = SetupFolder(OutputFolder, setups[j].name)
        /\ \A k1 \in Posts, k2 \in Posts : k1 < k2 => log[k1].i < log[k2].i

\* a second run in which folder a/ got 1 and 2 around a setup of folder b/
C1_Witness ==
    /\ ranBefore
    /\ \E k1 \in Posts, k2 \in Posts, k3 \in Posts :
          /\ k1 < k2 /\ k2 < k3
          /\ log[k1].folder = log[k3].folder
          /\ log[k2].folder # log[k1].folder
          /\ setups[log[k1].i].name # setups[log[k3].i].name
          /\ log[k1].seq = 1 /\ log[k2].seq = 1 /\ log[k3].seq = 2

\* the last run went through the whole list: it has ended, was not
\* cancelled and showed no failure
RunEndedOK ==
    /\ phase = "idle"
    /\ log # <<>>
    /\ ~wasCancelled
    /\ \A k \in 1..Len(log) : log[k].msg # msgFailed

NumEligible == Cardinality({j \in 1..Len(setups) : SpecEligible(setups[j])})

\* the step visits a setup that is suppressed or has no operations
VisitsIneligible ==
    /\ phase = "loop"
    /\ idx' = idx + 1
    /\ ~SpecEligible(setups[idx + 1])

\* the visit changes no counter, posts nothing, and is tallied
IneligibleFrame ==
    VisitsIneligible =>
        /\ seqDict' = seqDict
        /\ cntFiles' = cntFiles
        /\ log' = log
        /\ cntSetups' = cntSetups + 1

\* C2 as stated: visiting an ineligible setup leaves counters and files
\* alone and adds one to the tally, and a run that ends uncancelled and
\* without failure has visited every setup and emitted one file per
\* eligible setup.
C2_Original ==
    [][/\ IneligibleFrame
       /\ RunEndedOK' => /\ cntSetups' = Len(setups)
                         /\ cntFiles' = NumEligible]_vars

\* C2 amended: the same, except that a document without any operation is
\* not iterated at all: its run ends with a tally of 0.
C2_VisitedTally ==
    [][/\ IneligibleFrame
       /\ RunEndedOK' =>
             /\ cntFiles' = NumEligible
             /\ cntSetups' = IF \E j \in 1..Len(setups) : setups[j].count # 0
                             THEN Len(setups) ELSE 0]_vars

\* a run over an eligible, a suppressed and an empty setup has ended
C2_Witness ==
    /\ RunEndedOK
    /\ Len(setups) = 3
    /\ SpecEligible(setups[1])
    /\ setups[2].isSuppressed
    /\ setups[3].count = 0
    /\ cntSetups = 3
    /\ cntFiles = 1
    /\ Cardinality(Posts) = 1

\* the number a digit stands for
DigitValue(c) == CHOOSE v \in 0..9 : Digits[v + 1] = c

RECURSIVE DecimalValue(_)
DecimalValue(ds) ==
    IF ds = <<>> THEN 0
    ELSE 10 * DecimalValue(SubSeq(ds, 1, Len(ds) - 1)) + DigitValue(ds[Len(ds)])

\* ds is the decimal rendering of n: digits only, no leading zero
IsDecimalOf(ds, n) ==
    /\ ds # <<>>
    /\ \A i \in 1..Len(ds) : ds[i] \in Range(Digits)
    /\ Len(ds) > 1 => ds[1] # "0"
    /\ DecimalValue(ds) = n

\* the filename of post event e follows the numbering rule
NumberedAsStated(e) ==
    LET base == BaseName(setups[e.i].name)
        n == Len(e.fname) - Len(base) - 1
        num == SubSeq(e.fname, 1, n)
    IN IF docSettings.d["sequence"]
       THEN /\ n >= 1
            /\ e.fname[n + 1] = " "
            /\ SubSeq(e.fname, n + 2, Len(e.fname)) = base
            /\ IF docSettings.d["twoDigits"] /\ e.seq < 10
               THEN /\ Len(num) = 2
                    /\ num[1] = "0"
                    /\ IsDecimalOf(Tail(num), e.seq)
               ELSE IsDecimalOf(num, e.seq)
       ELSE e.fname = base

\* C3: the emitted filename is the decimal sequence number, with one leading
\* "0" iff twoDigits and seq < 10, one space and the base name when sequence
\* is set, and the base name alone when it is not.
C3_FileName ==
    log # <<>> => \A k \in Posts : NumberedAsStated(log[k])

\* a run with twoDigits that has named its third file "03 x" and its tenth
\* "10 x"
C3_Witness ==
    /\ log # <<>>
    /\ docSettings.d["sequence"] /\ docSettings.d["twoDigits"]
    /\ \E k1 \in Posts, k2 \in Posts :
          /\ log[k1].seq = 3
          /\ log[k1].fname = <<"0", "3", " ", "x">>
          /\ log[k2].seq = 10
          /\ log[k2].fname = <<"1", "0", " ", "x">>

RECURSIVE JoinHyphen(_)
JoinHyphen(segs) ==
    IF Len(segs) = 1 THEN segs[1]
    ELSE segs[1] \o <<"-">> \o JoinHyphen(Tail(segs))

\* segs are the segments of s between its hyphens
IsSplitOf(segs, s) ==
    /\ Len(segs) >= 1
    /\ \A i \in 1..Len(segs) : "-" \notin Range(segs[i])
    /\ JoinHyphen(segs) = s

\* t is s without its leading and trailing whitespace
IsTrimOf(t, s) ==
    /\ \E a \in 0..Len(s) : \E b \in 0..(Len(s) - a) :
          /\ t = SubSeq(s, a + 1, Len(s) - b)
          /\ \A i \in 1..a : IsSpace(s[i])
          /\ \A i \in (Len(s) - b + 1)..Len(s) : IsSpace(s[i])
    /\ t # <<>> => ~IsSpace(t[1]) /\ ~IsSpace(t[Len(t)])

RECURSIVE PathOf(_, _)
PathOf(root, parts) ==
    IF parts = <<>> THEN root
    ELSE PathOf(root \o <<"/">> \o Head(parts), Tail(parts))

TrimmedSegs(name) == [i \in 1..Len(split(name)) |-> strip(split(name)[i])]

FolderSegs(name) == SubSeq(TrimmedSegs(name), 1, Len(split(name)) - 1)

\* the folder and filename of post event e follow the splitting rule
PathAsStated(e) ==
    LET name == setups[e.i].name
        segs == split(name)
        n == Len(segs) - 1
        t == TrimmedSegs(name)
    IN /\ IsSplitOf(segs, name)
       /\ \A i \in 1..(n + 1) : IsTrimOf(t[i], segs[i])
       /\ e.folder = PathOf(OutputFolder, FolderSegs(name))
       /\ n = 0 => e.folder = OutputFolder
       /\ IF docSettings.d["sequence"]
          THEN endswith(e.fname, <<" ">> \o t[n + 1])
          ELSE e.fname = t[n + 1]

\* C4: the folder of a setup is the output folder extended by the trimmed
\* segments before the last hyphen, the base filename is the trimmed last
\* segment (possibly empty), every name is accepted, and two names with the
\* same trimmed folder segments get the same folder string and one counter.
C4_FolderAndBase ==
    log # <<>> =>
        /\ \A k \in Posts : PathAsStated(log[k])
        /\ \A j \in 1..idx :
              SpecEligible(setups[j]) => \E k \in Posts : log[k].i = j
        /\ \A k1 \in Posts, k2 \in Posts :
              (k1 < k2 /\ FolderSegs(setups[log[k1].i].name)
                          = FolderSegs(setups[log[k2].i].name))
                  => /\ log[k1].folder = log[k2].folder
                     /\ log[k2].seq > log[k1].seq

\* " a -" and "a\f-" (a, form feed, hyphen) were posted to the same folder
\* o/a with numbers 1 and 2, the second with an empty filename
C4_Witness ==
    /\ log # <<>>
    /\ ~docSettings.d["sequence"]
    /\ \E k1 \in Posts, k2 \in Posts :
          /\ k1 < k2
          /\ setups[log[k1].i].name = <<" ", "a", " ", "-">>
          /\ setups[log[k2].i].name = <<"a", "\f", "-">>
          /\ log[k1].folder = <<"o", "/", "a">>
          /\ log[k2].folder = <<"o", "/", "a">>
          /\ log[k1].seq = 1
          /\ log[k2].seq = 2
          /\ log[k2].fname = <<>>

\* ------------------------------------------------------------------------
\* Properties of the settings store
\* ------------------------------------------------------------------------

\* the keys of an object text, and the text has the member k : v
TextKeys(text) == {text.pairs[i][1] : i \in 1..Len(text.pairs)}

HasMember(text, k, v) ==
    \E i \in 1..Len(text.pairs) : text.pairs[i][1] = k /\ text.pairs[i][2] = v

\* the object text holds the dict d: the same keys, the same values
HoldsExactly(text, d) ==
    /\ text.t = "obj"
    /\ TextKeys(text) = DOMAIN d
    /\ \A i \in 1..Len(text.pairs) : d[text.pairs[i][1]] = text.pairs[i][2]

\* the attribute holds a JSON object
IsObject(attr) == attr.has /\ attr.value.t = "obj"

\* the attribute holds a settings record of the current version
IsCurrentRecord(attr) == IsObject(attr) /\ HasMember(attr.value, "version", version)

\* the attribute holds a settings record of another version
IsStaleRecord(attr) ==
    /\ IsObject(attr)
    /\ "version" \in TextKeys(attr.value)
    /\ ~HasMember(attr.value, "version", version)

\* a value is a dict whose version is the current one
IsCurrent(x) == x.t = "dict" /\ "version" \in DOMAIN x.d /\ x.d["version"] = version

\* GetSettings on document d in the current state
Get(d) == GetSettings(docAttr[d], default, fMustSave, file)

\* C5: the record the dialog and the run work on, every record GetSettings
\* returns in any reachable state, and the cached default once it is loaded
\* (before and after such a call) have version equal to the current version.
C5_VersionCurrent ==
    /\ docSettings # None => IsCurrent(docSettings)
    /\ default # None => IsCurrent(default)
    /\ \A d \in Docs :
          LET r == Get(d)
          IN /\ ~r.raised => IsCurrent(r.ret)
             /\ r.default # None => IsCurrent(r.default)

\* a run has been handed a record GetSettings upgraded from a stale document
\* record (its unknown key is still there) and the user edited, while the
\* file on disk is of a newer version
C5_Witness ==
    /\ log # <<>>
    /\ lastGet = "dialog"
    /\ docSettings # None
    /\ "extra" \in DOMAIN docSettings.d
    /\ docSettings.d["version"] = version
    /\ edits > 0
    /\ default # None
    /\ default.d["version"] = version
    /\ file = File(NewerText)

\* C6 (as stated): whenever the command asks for the settings of a document
\* whose record has a stale version, GetSettings returns a record that holds
\* every key of the compiled-in default and the current version.
C6_FullyPopulated ==
    [][\A d \in Docs :
          (CommandCreated(d) /\ IsStaleRecord(docAttr[d]))
          => LET r == Get(d)
             IN /\ ~r.raised
                /\ DOMAIN defaultSettings \subseteq DOMAIN r.ret.d
                /\ r.ret.d["version"] = version]_vars

\* the members of the text other than version are in d, unchanged
KeepsMembers(text, d) ==
    \A i \in 1..Len(text.pairs) :
       text.pairs[i][1] # "version"
       => /\ text.pairs[i][1] \in DOMAIN d
          /\ d[text.pairs[i][1]] = text.pairs[i][2]

\* every key of d that the text lacks has the value it has in src
FillsFrom(text, d, src) ==
    \A k \in DOMAIN d \ (TextKeys(text) \cup {"version"}) :
       k \in DOMAIN src /\ d[k] = src[k]

\* d is the additive merge of the object text against src
IsMergeOf(text, d, src) ==
    /\ KeepsMembers(text, d)
    /\ FillsFrom(text, d, src)
    /\ "version" \in DOMAIN d
    /\ d["version"] = version

\* the file holds a record GetSettings migrates when it loads the default
IsStaleFile(f) ==
    /\ f.exists
    /\ f.text.t = "obj"
    /\ "version" \in TextKeys(f.text)
    /\ ~HasMember(f.text, "version", version)

\* the document holds a non-empty object that is not of the current version
IsMerged(attr) ==
    IsObject(attr) /\ attr.value.pairs # <<>> /\ ~IsCurrentRecord(attr)

\* C7: in every reachable state, a document record GetSettings upgrades keeps
\* all its members but version (unknown ones too), gets its missing keys from
\* the global default and the current version; a stale file that is loaded
\* as the global default keeps all its members but version, gets its missing
\* keys from the compiled-in default and the current version; and the dialog
\* opens on exactly that merge.
C7_AdditiveMerge ==
    /\ \A d \in Docs :
          IsMerged(docAttr[d])
          => LET r == Get(d)
             IN /\ ~r.raised
                /\ IsMergeOf(docAttr[d].value, r.ret.d, r.default.d)
    /\ \A d \in Docs :
          (default = None /\ IsStaleFile(file) /\ ~IsCurrentRecord(docAttr[d]))
          => LET r == Get(d)
             IN r.read /\ IsMergeOf(file.text, r.default.d, defaultSettings)
    /\ (phase = "dialog" /\ edits = 0 /\ IsMerged(docAttr[activeDoc]))
       => IsMergeOf(docAttr[activeDoc].value, docSettings.d, default.d)

\* the dialog is open on a newer record upgraded against a default that was
\* migrated from an older file: the unknown key of both survived, the
\* document's own values won, a key missing in both came from the compiled-in
\* default through the global default
C7_Witness ==
    /\ phase = "dialog"
    /\ edits = 0
    /\ docAttr[activeDoc] = Attr(NewerText)
    /\ file = File(OldPartialText)
    /\ docSettings.d["extra"] = 7
    /\ docSettings.d["sequence"] = FALSE
    /\ docSettings.d["delFiles"] = FALSE
    /\ docSettings.d["twoDigits"] = FALSE
    /\ docSettings.d["version"] = version
    /\ default.d["extra"] = 7
    /\ default.d["sequence"] = TRUE
    /\ default.d["version"] = version

\* C8: when the document attribute holds a record of the current version, the
\* call of GetSettings on it returns exactly that record, and leaves the
\* cached default, the must-save flag and the file as they were, the file
\* not opened.
C8_Verbatim ==
    [][\A d \in Docs :
          (CommandCreated(d) /\ IsCurrentRecord(docAttr[d]))
          => LET r == Get(d)
             IN /\ ~r.raised
                /\ HoldsExactly(docAttr[d].value, r.ret.d)
                /\ ~r.read
                /\ storeVars' = storeVars
                /\ fileReads' = fileReads
                /\ lastGet' = "dialog"
                   => HoldsExactly(docAttr[d].value, docSettings'.d)]_vars

\* the dialog is open on a current record that lacks a compiled-in key, the
\* file is corrupt and was never opened, nothing is cached
C8_Witness ==
    /\ phase = "dialog"
    /\ lastGet = "dialog"
    /\ docAttr[activeDoc] = Attr(CurrentNoUnitsText)
    /\ HoldsExactly(CurrentNoUnitsText, docSettings.d)
    /\ default = None
    /\ ~fMustSave
    /\ fileReads = 0
    /\ file = File(BadText)

\* the attribute value is not a JSON object
IsBadBlob(attr) == attr.has /\ attr.value.t # "obj"

\* the file is missing or does not hold a JSON object with a version
IsBadFile(f) == ~f.exists \/ f.text.t # "obj" \/ "version" \notin TextKeys(f.text)

\* C9 (as stated): no call of GetSettings raises; on a document attribute
\* that is no JSON object it does what it does on a document without the
\* attribute; and when it loads a missing or bad file the cached default
\* becomes the compiled-in default and the must-save flag is set.
C9_NeverRaises ==
    [][\A d \in Docs :
          CommandCreated(d)
          => LET r == Get(d)
             IN /\ ~r.raised
                /\ lastGet' # "raised"
                /\ IsBadBlob(docAttr[d])
                   => r = GetSettings(NoAttr, default, fMustSave, file)
                /\ (r.read /\ IsBadFile(file))
                   => /\ default' = Dict(defaultSettings)
                      /\ fMustSave']_vars

\* C10: SaveSettings leaves the document attribute holding exactly the record
\* given, whatever it held and whatever the must-save flag was; and when the
\* record's version is current, GetSettings on the document then returns a
\* record equal to it, with the store as the call left it and with any file
\* and nothing cached.
C10_RoundTrip ==
    [][Execute
       => /\ docAttr'[activeDoc].has
          /\ HoldsExactly(docAttr'[activeDoc].value, docSettings.d)
          /\ docSettings.d["version"] = version
             => /\ GetSettings(docAttr'[activeDoc], default', fMustSave', file')
                   = [raised |-> FALSE, ret |-> docSettings, shared |-> FALSE,
                      default |-> default', mustSave |-> fMustSave', read |-> FALSE]
                /\ \A f \in FileInits :
                      LET g == GetSettings(docAttr'[activeDoc], None, FALSE, f)
                      IN ~g.raised /\ g.ret = docSettings]_vars

\* a run saved a record with an unknown key after the user's edits, over a
\* different prior attribute; the attribute holds it, and so does the file,
\* written by SaveDefault
C10_Witness ==
    /\ phase = "idle"
    /\ log # <<>>
    /\ docSettings # None
    /\ "extra" \in DOMAIN docSettings.d
    /\ docSettings.d["sequence"] = FALSE
    /\ HoldsExactly(docAttr[activeDoc].value, docSettings.d)
    /\ docAttr[activeDoc] # Attr(OldPartialText)
    /\ docAttr[activeDoc] # Attr(NewerText)
    /\ file = File(docAttr[activeDoc].value)
    /\ ~fMustSave
    /\ edits > 0

\* a step in which SaveDefault is called: the save button, or SaveSettings
\* with the must-save flag set
SaveDefaultCalled ==
    \/ InputChanged /\ \E outcome \in WriteOutcomes : SaveClicked(outcome)
    \/ Execute /\ fMustSave

\* C11: every call of SaveDefault(S), whatever becomes of the file write,
\* returns (the dialog resp. the run goes on), leaves the must-save flag false
\* and the cached default equal to S; GetSettings on a document without the
\* attribute then returns a record equal to S without reading the file,
\* whatever the file holds; and the cached default stays that record through
\* every later step that is not a SaveDefault call.
C11_SaveDefault ==
    [][IF SaveDefaultCalled
       THEN /\ ~fMustSave'
            /\ default' = docSettings
            /\ phase' \in {"dialog", "idle"}
            /\ \A f \in FileInits \cup {file'} :
                  GetSettings(NoAttr, default', fMustSave', f)
                     = [raised |-> FALSE, ret |-> docSettings, shared |-> FALSE,
                        default |-> default', mustSave |-> FALSE, read |-> FALSE]
       ELSE default # None
            => /\ default' = default
               /\ GetSettings(NoAttr, default', fMustSave', file').ret = default]_vars

\* the save button was pressed on a record with an unknown key while there
\* was no settings file, and the write failed: there is still no file, the
\* cache holds the record, the flag is clear, and the dialog is open again on
\* a document without settings, showing that record
C11_Witness ==
    /\ phase = "dialog"
    /\ file = NoFile
    /\ ~fMustSave
    /\ default # None
    /\ "extra" \in DOMAIN default.d
    /\ ~docAttr[activeDoc].has
    /\ docSettings = default

\* ------------------------------------------------------------------------
\* Properties of the run
\* ------------------------------------------------------------------------

\* the rmtree calls of the current run
Deletions == {k \in 1..Len(log) : log[k].op = "rmtree"}

\* the current run was started with delFiles set
RunDeletes == log # <<>> /\ docSettings # None /\ docSettings.d["delFiles"]

\* C12 (as stated): in every run in which delFiles is true the output folder
\* is deleted, before every post-process call of the run.
C12_Original ==
    RunDeletes
    => /\ Deletions # {}
       /\ \A k \in Deletions : \A p \in Posts : k < p

\* C12 (amended): in a run on a document that has operations, delFiles true
\* means exactly one recursive deletion, of the output folder, right after
\* the settings are saved and before every post-process call, and whether
\* or not the folder exists the run goes on (no failure is reported for it);
\* delFiles false, or a document without operations, means no deletion.
C12_DeleteBeforePost ==
    (log # <<>> /\ docSettings # None)
    => /\ (AllOperationsCount(setups) # 0 /\ docSettings.d["delFiles"])
          => /\ Deletions = {2}
             /\ log[2].folder = OutputFolder
             /\ \A p \in Posts : 2 < p
             /\ Len(log) > 2 => log[3] # MessageEvent(msgFailed)
             /\ Len(log) = 2 => phase = "loop"
       /\ (AllOperationsCount(setups) = 0 \/ ~docSettings.d["delFiles"])
          => Deletions = {}

\* a run with delFiles set has ended after deleting the folder and then
\* posting two files
C12_Witness ==
    /\ phase = "idle"
    /\ RunDeletes
    /\ Len(log) = 4
    /\ log[2] = RmtreeEvent(Out)
    /\ Posts = {3, 4}
    /\ cntFiles = 2

\* the messages shown to the user in the current run
Messages == {log[k].msg : k \in {j \in 1..Len(log) : log[j].op = "messageBox"}}

\* C13: a run over a list without eligible setups, once it has ended, has
\* made no post-process call, has files-emitted 0, and has told the user
\* that there is nothing to post, as the last thing it did, and reported no
\* failure.
C13_EmptyResult ==
    (phase # "loop" /\ log # <<>> /\ NumEligible = 0)
    => /\ Posts = {}
       /\ cntFiles = 0
       /\ log[Len(log)] = MessageEvent(msgNothing)
       /\ Messages = {msgNothing}

\* a run over three setups has ended, all visited and none eligible: one
\* suppressed with operations, one without operations
C13_Witness ==
    /\ phase = "idle"
    /\ log # <<>>
    /\ Len(setups) = 3
    /\ NumEligible = 0
    /\ AllOperationsCount(setups) # 0
    /\ cntSetups = 3
    /\ \E j \in 1..3 : setups[j].count = 0
    /\ ~wasCancelled
    /\ Messages = {msgNothing}

\* ------------------------------------------------------------------------
\* Properties of the dialog
\* ------------------------------------------------------------------------

\* the output folder value is non-empty
OutputGiven == docSettings.d["output"] # <<>>

\* the post-processor path ends in .cps and names an existing file
PostGiven ==
    LET post == docSettings.d["post"]
        n == Len(post)
    IN /\ n >= 4
       /\ post[n - 3] = "." /\ post[n - 2] = "c" /\ post[n - 1] = "p" /\ post[n] = "s"
       /\ post \in ExistingFiles

\* the error text box after a validation: shown exactly when something is
\* invalid, then naming the invalid items
ErrorAsStated ==
    /\ errorText[1] = ~(OutputGiven /\ PostGiven)
    /\ ~(OutputGiven /\ PostGiven)
       => /\ errorText[2] = (IF OutputGiven THEN "" ELSE "the output folder")
          /\ errorText[3] = (IF ~OutputGiven /\ ~PostGiven THEN " and " ELSE "")
          /\ errorText[4] = (IF PostGiven THEN "" ELSE "a valid post processor")

ValidationAsStated ==
    (phase = "dialog" /\ validated)
    => /\ areInputsValid = (OutputGiven /\ PostGiven)
       /\ ErrorAsStated

\* C14: after every validation the inputs are marked valid exactly when the
\* output folder is non-empty and the post processor ends in .cps and names
\* an existing file, and when they are invalid the error text is visible and
\* names exactly the invalid items; and every run starts from a dialog whose
\* inputs are valid and marked so.
C14_Validation ==
    [][/\ ValidationAsStated'
       /\ Execute => (areInputsValid /\ OutputGiven /\ PostGiven)]_vars

\* the dialog has been validated with no output folder and a post processor
\* that exists but lacks the extension: both are named, joined by "and"
C14_Witness ==
    /\ phase = "dialog"
    /\ validated
    /\ ~areInputsValid
    /\ docSettings.d["output"] = Empty
    /\ docSettings.d["post"] = NoExt
    /\ errorText = <<TRUE, "the output folder", " and ", "a valid post processor">>

\* the SaveSettings calls of the current run
Saves == {k \in 1..Len(log) : log[k].op = "SaveSettings"}

\* C15 (as stated): in a run that has ended after posting, the settings were
\* saved exactly once, after every post-process call, as the last step.
C15_Original ==
    (phase # "loop" /\ log # <<>> /\ Posts # {})
    => /\ Cardinality(Saves) = 1
       /\ \A k \in Saves : \A p \in Posts : p < k

\* C15 (amended): in each run the settings are saved exactly once, as the
\* first step of the run, before the deletion and before every post-process
\* call: the step that starts the run writes the record to the active
\* document's attribute, and no step of the loop or of its end writes the
\* attribute again.
C15_SaveFirst ==
    [][/\ log' # <<>>
          => /\ Saves' = {1}
             /\ \A k \in Posts' \cup Deletions' : 1 < k
       /\ Execute => docAttr'[activeDoc] = Attr(dumps(docSettings.d))
       /\ phase = "loop" => docAttr' = docAttr]_vars

\* a run has ended after two posts; its first call was the save, and the
\* document holds the run's record
C15_Witness ==
    /\ phase = "idle"
    /\ Len(log) >= 3
    /\ log[1] = SaveEvent
    /\ Cardinality(Posts) = 2
    /\ docAttr[activeDoc] = Attr(dumps(docSettings.d))

\* C16 (as stated): a SaveSettings call made while the must-save flag is set
\* persists the pending default: the cached default is the same record
\* before and after, the file (when the write succeeds) holds it, and the
\* flag is cleared; a call made while the flag is clear changes neither the
\* cached default nor the file nor the flag.
C16_PendingDefault ==
    [][Execute
       => /\ default' = default
          /\ ~fMustSave'
          /\ IF fMustSave
             THEN file' # file => HoldsExactly(file'.text, default.d)
             ELSE file' = file]_vars

\* C17: the settings file is opened for reading at most once: only by a
\* GetSettings call made while nothing is cached, which caches a default;
\* once a default is cached one stays cached, whatever is called on whatever
\* document; the must-save flag is set only by that one load, so it is never
\* set again once it is clear after the load.
C17_ReadOnce ==
    [][/\ fileReads' <= 1
       /\ fileReads' # fileReads
          => /\ default = None
             /\ default' # None
             /\ \E d \in Docs : CommandCreated(d) /\ Get(d).read
       /\ default # None => default' # None
       /\ (fMustSave' /\ ~fMustSave) => fileReads' # fileReads
       /\ (fileReads = 1 /\ ~fMustSave) => ~fMustSave']_vars

\* the file was missing when it was read, which set the flag; a run on one
\* document cleared it (the write failed, there is still no file); the
\* dialog was then opened on another document with stale settings, and the
\* file was not read again
C17_Witness ==
    /\ phase = "dialog"
    /\ log # <<>>
    /\ IsStaleRecord(docAttr[activeDoc])
    /\ fileReads = 1
    /\ ~fMustSave
    /\ file = NoFile
    /\ "extra" \in DOMAIN docSettings.d

\* a step of the inputChanged handler other than the save button
FieldEdited == InputChanged /\ ~(\E outcome \in WriteOutcomes : SaveClicked(outcome))

\* C20: the record the dialog works on is never the cached default object:
\* an edit of a field in the dialog leaves the cached default as it was,
\* also after the record was saved as the default; the cached default
\* changes only in the GetSettings call that loads it and in SaveDefault
\* calls.
C20_NoAliasing ==
    [][/\ ~shared'
       /\ FieldEdited => (default' = default /\ docSettings' # docSettings)
       /\ default' # default
          => \/ default = None /\ \E d \in Docs : CommandCreated(d)
             \/ SaveDefaultCalled]_vars

\* a document without the attribute got a copy of the compiled-in default
\* (no file), the user edited it, and the cached default is still the
\* compiled-in one (nothing was saved: the flag is still set)
C20_Witness ==
    /\ phase = "dialog"
    /\ ~docAttr[activeDoc].has
    /\ file = NoFile
    /\ fMustSave
    /\ default = Dict(defaultSettings)
    /\ docSettings # default
    /\ docSettings.d["output"] = Out

\* C18: once the cancellation flag is set at the start of an iteration, the
\* only thing the run does is end: no setup is visited, posted or counted,
\* no sequence counter changes, nothing is deleted, the files posted stay
\* counted, no failure is reported (the empty-result notice only when no file
\* was posted); and a cancellation asserted while a setup is posted lets
\* that post complete and be counted.
C18_Cancellation ==
    [][/\ (phase = "loop" /\ wasCancelled)
          => /\ phase' = "idle"
             /\ idx' = idx
             /\ cntSetups' = cntSetups
             /\ cntFiles' = cntFiles
             /\ seqDict' = seqDict
             /\ Posts' = Posts
             /\ Deletions' = Deletions
             /\ msgFailed \notin Messages'
             /\ log' = (IF cntFiles = 0 THEN Append(log, MessageEvent(msgNothing))
                        ELSE log)
       /\ (phase = "loop" /\ ~wasCancelled /\ wasCancelled' /\ idx' # idx)
          => /\ SpecEligible(setups[idx + 1])
             /\ idx' = idx + 1
             /\ cntFiles' = cntFiles + 1
             /\ cntSetups' = cntSetups + 1
             /\ log'[Len(log')].op = "postProcess"
             /\ log'[Len(log')].i = idx + 1
             /\ phase' = "loop"]_vars

\* a run over three eligible setups was cancelled after the first was
\* posted and has ended: one file, one setup counted, two setups never
\* visited, no message
C18_Witness ==
    /\ phase = "idle"
    /\ wasCancelled
    /\ Len(setups) = 3
    /\ NumEligible = 3
    /\ idx = 1
    /\ cntFiles = 1
    /\ cntSetups = 1
    /\ Cardinality(Posts) = 1
    /\ Messages = {}

\* C19: the step in which a post-process call fails ends the run: the call
\* was made for the setup at hand, an eligible one, and is the last call of
\* the run but for the failure message; the calls made before are as they
\* were, the counters too; the empty-result notice is not given, also when
\* no file was posted; and nothing more happens in that run.
C19_FailFast ==
    [][/\ (phase = "loop" /\ msgFailed \in Messages')
          => /\ phase' = "idle"
             /\ SpecEligible(setups[idx + 1])
             /\ Len(log') = Len(log) + 2
             /\ SubSeq(log', 1, Len(log)) = log
             /\ log'[Len(log) + 1].op = "postProcess"
             /\ log'[Len(log) + 1].i = idx + 1
             /\ log'[Len(log) + 2] = MessageEvent(msgFailed)
             /\ \A p \in Posts' : log'[p].i <= idx + 1
             /\ msgNothing \notin Messages'
             /\ idx' = idx
             /\ cntFiles' = cntFiles
             /\ cntSetups' = cntSetups
       /\ (phase # "loop" /\ msgFailed \in Messages /\ log' # <<>>
             /\ msgFailed \in Messages')
          => UNCHANGED <<log, idx, cntFiles, cntSetups, seqDict>>]_vars

\* the post of the first setup of three failed: the run has ended with that
\* one call, no file, no setup counted, and the failure message alone
C19_Witness ==
    /\ phase = "idle"
    /\ Len(setups) = 3
    /\ NumEligible = 3
    /\ Messages = {msgFailed}
    /\ cntFiles = 0
    /\ cntSetups = 0
    /\ idx = 0
    /\ Len(log) >= 2
    /\ log[Len(log)] = MessageEvent(msgFailed)
    /\ Cardinality(Posts) = 1

\* the (setupFolder, filename) pair of the post-process call at position p
Target(p) == <<log[p].folder, log[p].fname>>

\* C21: in a run with sequence set, the post-process calls have pairwise
\* different (setupFolder, filename) pairs, whatever the names (identical
\* ones too) and whatever twoDigits is; in a run with sequence not set, two
\* calls for setups whose names have the same trimmed segments have the
\* same pair.
C21_DistinctTargets ==
    (log # <<>> /\ docSettings # None)
    => \A p \in Posts, q \in Posts :
          IF docSettings.d["sequence"]
          THEN p # q => Target(p) # Target(q)
          ELSE TrimmedSegs(setups[log[p].i].name) = TrimmedSegs(setups[log[q].i].name)
               => Target(p) = Target(q)

\* a run with two-digit sequence numbers has posted identically named
\* setups to one folder, the ninth and the tenth among them, under
\* different filenames
C21_Witness ==
    /\ log # <<>>
    /\ docSettings # None
    /\ docSettings.d["sequence"] /\ docSettings.d["twoDigits"]
    /\ \E p \in Posts, q \in Posts :
          /\ setups[log[p].i].name = setups[log[q].i].name
          /\ log[p].folder = log[q].folder
          /\ log[p].seq = 9
          /\ log[q].seq = 10
          /\ log[p].fname = <<"0", "9", " ", "x">>
          /\ log[q].fname = <<"1", "0", " ", "x">>
====
